---- MODULE Spec2Model ----
(***************************************************************************)
(* Model of lsxwriter (src/src/main.rs): the archive scan, the extraction  *)
(* of each archive's module description, the dependency graph built from   *)
(* the modules, and the replacement of the mod list of modsettings.lsx.    *)
(*                                                                         *)
(* Text is a sequence of one-character strings, so that starts_with is     *)
(* computed and not assumed; every attribute value of a description is    *)
(* text.  An XML element is a record                                       *)
(*   [name, attrs, children]                                               *)
(* whose attrs is a function from attribute names to values.  An unsigned  *)
(* integer of the archive layout is the sequence of its little-endian      *)
(* bytes, because the values of the offset reconstruction exceed the       *)
(* integers the model checker computes with.                               *)
(***************************************************************************)
EXTENDS Integers, Sequences, FiniteSets, TLC

VARIABLES
    dir,          \* the file names of <game_data>/Mods, in read_dir order
    pc,           \* position of main
    i,            \* index of the loop main is in
    paks,         \* Vec<PAKFile>: the archives opened
    mods,         \* Vec<Module>: the modules extracted
    modsettings,  \* modsettings.lsx as the run finds it: the children of its Mods node
    modlist,      \* the same children in the parsed document
    base_mod,     \* the description parsed from the base element
    new_modlist,  \* the copy of modlist main edits
    dep_graph,    \* the AcyclicDependencyGraph
    layers,       \* the layers the graph returned
    emitted,      \* the descriptions iterated over, in iteration order
    error,        \* the panic or error that ended the run
    log,          \* what was printed to stderr for skipped archives
    output,       \* the document written (to the file or to stdout)
    entry,        \* a PAKFileEntry's offset fields, as bytes
    offset_result \* what PAKFileEntry::offset returned for entry

vars == <<dir, modsettings, pc, i, paks, mods, modlist, base_mod, new_modlist, dep_graph,
          layers, emitted, error, log, output, entry, offset_result>>

mainVars == <<dir, modsettings, pc, i, paks, mods, modlist, base_mod, new_modlist, dep_graph,
              layers, emitted, error, log, output>>

offsetVars == <<entry, offset_result>>

---------------------------------------------------------------------------
(* Bounds *)

\* entries of the Mods directory
MaxPaks == 3

---------------------------------------------------------------------------
(* Text *)

\* const BASE_GAME_MOD_PREFIX: &str = "Gustav"
BASE_GAME_MOD_PREFIX == <<"G", "u", "s", "t", "a", "v">>

\* str::starts_with
starts_with(s, prefix) ==
    /\ Len(s) >= Len(prefix)
    /\ SubSeq(s, 1, Len(prefix)) = prefix

\* str::ends_with
ends_with(s, suffix) ==
    /\ Len(s) >= Len(suffix)
    /\ SubSeq(s, Len(s) - Len(suffix) + 1, Len(s)) = suffix

\* Option<T>: None is <<>>, Some(v) is <<v>>
None == <<>>

Some(v) == <<v>>

IsSome(o) == Len(o) = 1

Unwrap(o) == o[1]

\* Iterator::find: the first of the elements of s at the positions hits (those
\* that satisfy the closure), as an Option
Find(s, hits) ==
    IF hits = {} THEN None
    ELSE Some(s[CHOOSE k \in hits : \A l \in hits : k <= l])

---------------------------------------------------------------------------
(* ModuleDescription *)

\* kiss_xml Element::get_attr
ElemAttr(elem, key) ==
    IF key \in DOMAIN elem.attrs THEN Some(elem.attrs[key]) ELSE None

\* ModuleDescription::get_attr: the value of the first child whose id is name
get_attr(mod_element, name) ==
    LET children == mod_element.children
        att == Find(children, {k \in 1..Len(children) :
                                  ElemAttr(children[k], "id") = Some(name)})
    IN  IF ~IsSome(att) THEN None
        ELSE ElemAttr(Unwrap(att), "value")

\* the five attributes ModuleDescription::parse unwraps
RequiredAttrs == {"Folder", "MD5", "Name", "UUID", "Version64"}

\* ModuleDescription::parse panics when a required attribute is missing
ParsePanics(mod_element) ==
    \E a \in RequiredAttrs : ~IsSome(get_attr(mod_element, a))

\* ModuleDescription::parse
parse(mod_element) ==
    [folder         |-> Unwrap(get_attr(mod_element, "Folder")),
     md5            |-> Unwrap(get_attr(mod_element, "MD5")),
     name           |-> Unwrap(get_attr(mod_element, "Name")),
     publish_handle |-> get_attr(mod_element, "PublishHandle"),
     uuid           |-> Unwrap(get_attr(mod_element, "UUID")),
     version64      |-> Unwrap(get_attr(mod_element, "Version64"))]

\* kiss_xml Element::new("attribute", ..., attributes {id, type, value})
Attribute(id, type, value) ==
    [name     |-> "attribute",
     attrs    |-> [id |-> id, type |-> type, value |-> value],
     children |-> <<>>]

\* ModuleDescription::as_xml
as_xml(self) ==
    LET publish_handle_str ==
            IF IsSome(self.publish_handle) THEN Unwrap(self.publish_handle)
            ELSE <<"0">>
    IN  [name     |-> "node",
         attrs    |-> [id |-> "ModuleShortDesc"],
         children |-> << Attribute("Folder", "LSString", self.folder),
                         Attribute("MD5", "LSString", self.md5),
                         Attribute("Name", "LSString", self.name),
                         Attribute("PublishHandle", "uint64", publish_handle_str),
                         Attribute("UUID", "guid", self.uuid),
                         Attribute("Version64", "int64", self.version64) >>]

\* a mutant of DescEq: the derived, field-by-field equality
DescEqAllFields(a, b) == a = b

\* impl PartialEq (and Hash) for ModuleDescription: the uuid alone
DescEq(a, b) == a.uuid = b.uuid

---------------------------------------------------------------------------
(* PAKFile *)

\* the header signature PAKFile::open compares with
LSPK == <<"L", "S", "P", "K">>

\* lz4_flex::decompress of a block: the data, or an error for a corrupt block
decompress(block) == IF block.valid THEN Some(block.data) ELSE None

\* PAKFile::open: Ok(pak), Err(BadMagic), or a panic of an unwrap
open(file) ==
    IF file.magic # LSPK THEN [result |-> "Err", error |-> "BadMagic"]
    ELSE IF ~IsSome(decompress(file.file_list))
         THEN [result |-> "Panic", error |-> "DecompressionFailure"]
         ELSE [result    |-> "Ok",
               file_list |-> Unwrap(decompress(file.file_list))]

\* the entry name PAKFile::module looks for
IsMetadataName(name) ==
    /\ starts_with(name, <<"M", "o", "d", "s", "/">>)
    /\ ends_with(name, <<"/", "m", "e", "t", "a", ".", "l", "s", "x">>)

\* the dependencies PAKFile::module keeps: those whose name is not the base game's
FilterDependencies(deps) ==
    SelectSeq(deps, LAMBDA dep : ~starts_with(dep.name, BASE_GAME_MOD_PREFIX))

\* Element::first_element_by_name
first_element_by_name(elem, name) ==
    Find(elem.children, {k \in 1..Len(elem.children) : elem.children[k].name = name})

\* PAKFile::module on an opened archive: Ok(Module), Err(NoMetadata), or a panic
module(pak) ==
    LET metadata == Find(pak.file_list, {k \in 1..Len(pak.file_list) :
                                           IsMetadataName(pak.file_list[k].name)})
    IN  IF ~IsSome(metadata) THEN [result |-> "Err", error |-> "NoMetadata"]
        ELSE
        LET raw_meta == decompress(Unwrap(metadata).payload)
        IN  IF ~IsSome(raw_meta)
            THEN [result |-> "Panic", error |-> "DecompressionFailure"]
            ELSE
            \* the byte order mark, when there is one, is stripped before parsing
            LET children == Unwrap(raw_meta).xml
                mod_info == Find(children, {k \in 1..Len(children) :
                                ElemAttr(children[k], "id") = Some("ModuleInfo")})
                dep_node == Find(children, {k \in 1..Len(children) :
                                ElemAttr(children[k], "id") = Some("Dependencies")})
            IN  IF \/ ~IsSome(mod_info)
                   \/ ParsePanics(Unwrap(mod_info))
                   \/ ~IsSome(dep_node)
                THEN [result |-> "Panic", error |-> "MalformedDescriptor"]
                ELSE
                LET dep_children == first_element_by_name(Unwrap(dep_node), "children")
                    dep_elems == IF IsSome(dep_children)
                                 THEN Unwrap(dep_children).children
                                 ELSE <<>>
                IN  IF \E k \in 1..Len(dep_elems) : ParsePanics(dep_elems[k])
                    THEN [result |-> "Panic", error |-> "MalformedDescriptor"]
                    ELSE [result |-> "Ok",
                          module |->
                            [description  |-> parse(Unwrap(mod_info)),
                             dependencies |->
                                FilterDependencies(
                                    [k \in 1..Len(dep_elems) |-> parse(dep_elems[k])])]]

---------------------------------------------------------------------------
(* The inputs: descriptions, descriptor documents, archives, mod lists *)

Description(folder, md5, name, publish_handle, uuid, version64) ==
    [folder |-> folder, md5 |-> md5, name |-> name,
     publish_handle |-> publish_handle, uuid |-> uuid, version64 |-> version64]

\* the base game, as modsettings.lsx lists it
GustavX == Description(<<"G">>, <<>>, BASE_GAME_MOD_PREFIX \o <<"X">>,
                       Some(<<"0">>), <<"g">>, <<"3", "6">>)

\* the base game, as a mod declares its dependency on it
GustavDev == Description(<<"G">>, <<>>, BASE_GAME_MOD_PREFIX \o <<"D", "e", "v">>,
                         None, <<"g">>, <<"3", "5">>)

\* mod A, as its own archive describes it
A1 == Description(<<"A">>, <<"1">>, <<"M", "o", "d", "A">>, Some(<<"7">>), <<"a">>, <<"1">>)

\* a second archive with mod A's UUID and other attributes
A2 == Description(<<"A", "2">>, <<"2">>, <<"G", "u", "s">>, None, <<"a">>, <<"2">>)

\* mod A, as a dependent declares it
ADep == Description(<<"A">>, <<>>, <<"M", "o", "d", "A">>, None, <<"a">>, <<"0">>)

B1 == Description(<<"B">>, <<"1">>, <<"M", "o", "d", "B">>, None, <<"b">>, <<"1">>)

BDep == Description(<<"B">>, <<>>, <<"M", "o", "d", "B">>, Some(<<"0">>), <<"b">>, <<"0">>)

C1 == Description(<<"C">>, <<"1">>, <<"M", "o", "d", "C">>, Some(<<"9">>), <<"c">>, <<"1">>)

\* a mod that is declared as a dependency and is in no archive
DDep == Description(<<"D">>, <<>>, <<"M", "o", "d", "D">>, None, <<"d">>, <<"0">>)

\* an archive that carries the base game's UUID
G1 == Description(<<"G">>, <<"1">>, <<"P", "a", "t", "c", "h">>, None, <<"g">>, <<"1">>)

\* the element of a description in a document that omits absent attributes
DescElem(id, d, omit) ==
    LET all == << Attribute("Folder", "LSString", d.folder),
                  Attribute("MD5", "LSString", d.md5),
                  Attribute("Name", "LSString", d.name),
                  Attribute("PublishHandle", "uint64",
                            IF IsSome(d.publish_handle)
                            THEN Unwrap(d.publish_handle) ELSE <<>>),
                  Attribute("UUID", "guid", d.uuid),
                  Attribute("Version64", "int64", d.version64) >>
    IN  [name     |-> "node",
         attrs    |-> [id |-> id],
         children |-> SelectSeq(all, LAMBDA a :
                         /\ a.attrs.id \notin omit
                         /\ (a.attrs.id = "PublishHandle" => IsSome(d.publish_handle)))]

\* meta.lsx: the children of region/node/children
MetaXml(info, deps) ==
    << info,
       [name     |-> "node",
        attrs    |-> [id |-> "Dependencies"],
        children |-> IF IsSome(deps)
                     THEN << [name     |-> "children",
                              attrs    |-> <<>>,
                              children |-> [k \in 1..Len(Unwrap(deps)) |->
                                  DescElem("ModuleShortDesc", Unwrap(deps)[k], {})]] >>
                     ELSE <<>>] >>

PakName(c) == <<c, ".", "p", "a", "k">>

MetaName(c) == <<"M", "o", "d", "s", "/", c, "/", "m", "e", "t", "a", ".", "l", "s", "x">>

\* an archive whose directory holds an asset and, last, the descriptor document
Archive(c, magic, info, deps, bom) ==
    [file_name |-> PakName(c),
     magic     |-> magic,
     file_list |->
        [valid |-> TRUE,
         data  |-> << [name    |-> <<"P", "u", "b", "l", "i", "c", "/", c>>,
                       payload |-> [valid |-> TRUE, data |-> [bom |-> FALSE, xml |-> <<>>]]],
                      [name    |-> MetaName(c),
                       payload |-> [valid |-> TRUE,
                                    data  |-> [bom |-> bom, xml |-> MetaXml(info, deps)]]] >>]]

ModArchive(c, d, deps) == Archive(c, LSPK, DescElem("ModuleInfo", d, {}), deps, FALSE)

\* the files the Mods directory may hold
Files ==
    { \* not an archive
      [ModArchive("t", A1, None) EXCEPT !.file_name = <<"t", ".", "t", "x", "t">>],
      \* BadMagic
      Archive("m", <<"P", "K", "0", "0">>, DescElem("ModuleInfo", C1, {}), None, FALSE),
      \* a corrupt directory block
      [ModArchive("k", C1, None) EXCEPT !.file_list.valid = FALSE],
      \* no descriptor document
      [ModArchive("n", C1, None) EXCEPT
          !.file_list.data = << @[1] >>],
      \* a descriptor without its UUID
      Archive("u", LSPK, DescElem("ModuleInfo", C1, {"UUID"}), None, FALSE),
      ModArchive("a", A1, None),
      Archive("e", LSPK, DescElem("ModuleInfo", A2, {}), Some(<<>>), TRUE),
      ModArchive("f", A1, Some(<<BDep>>)),
      ModArchive("b", B1, None),
      ModArchive("h", B1, Some(<<ADep>>)),
      ModArchive("d", B1, Some(<<GustavDev, DDep>>)),
      ModArchive("c", C1, Some(<<ADep, BDep>>)),
      ModArchive("g", G1, None) }

\* their names
FileNames == {f.file_name : f \in Files}

\* MemoryMappedFile::open_ro: the file of that name
ReadFile(file_name) == CHOOSE f \in Files : f.file_name = file_name

\* a stale entry of the mod list
Stale(d) == DescElem("ModuleShortDesc", d, {})

\* what the Mods node of modsettings.lsx may hold before the run
ModLists ==
    { << Stale(GustavX) >>,
      << Stale(GustavX), Stale(ADep), Stale(DDep) >>,
      << Stale(A2), Stale(GustavDev), Stale(GustavX),
         [name |-> "note", attrs |-> <<>>, children |-> <<>>] >>,
      << Stale(C1) >> }

\* the listings of at most n of the names of S, in any order
RECURSIVE Listings(_, _)
Listings(S, n) ==
    IF n = 0 THEN {<<>>}
    ELSE LET shorter == Listings(S, n - 1)
         IN  shorter \cup {Append(s, x) : s \in shorter, x \in S}

---------------------------------------------------------------------------
(* AcyclicDependencyGraph (the topologic crate main.rs builds on).  The    *)
(* crate's source is not in the repository; the graph follows section 4.4  *)
(* of the specification: a known node is reused, an edge that would close  *)
(* a cycle is refused, the layers are those of Kahn's algorithm.  The      *)
(* graph is the nodes in the order they were first inserted, and the       *)
(* edges <<m, d>>, "node m depends on node d", between indices of nodes.   *)
(* Nodes are compared with ModuleDescription's own equality.               *)

EmptyGraph == [nodes |-> <<>>, edges |-> {}]

\* the index of d's node, 0 when the graph has none
NodeIndex(g, d) ==
    LET hits == {k \in 1..Len(g.nodes) : DescEq(g.nodes[k], d)}
    IN  IF hits = {} THEN 0 ELSE CHOOSE k \in hits : \A l \in hits : k <= l

\* a node that is already known is reused, with the attributes it has
Intern(g, d) ==
    IF NodeIndex(g, d) # 0 THEN g ELSE [g EXCEPT !.nodes = Append(@, d)]

\* the nodes that the nodes of S depend on, directly or through others
RECURSIVE Dependencies(_, _)
Dependencies(g, S) ==
    LET more == S \cup {e[2] : e \in {e \in g.edges : e[1] \in S}}
    IN  IF more = S THEN S ELSE Dependencies(g, more)

\* depend_on(from, to): Err when the edge would close a cycle
depend_on(g, from, to) ==
    LET g1 == Intern(Intern(g, from), to)
        f  == NodeIndex(g1, from)
        t  == NodeIndex(g1, to)
    IN  IF f \in Dependencies(g1, {t})
        THEN [ok |-> FALSE, graph |-> g, node |-> from]
        ELSE [ok |-> TRUE, graph |-> [g1 EXCEPT !.edges = @ \cup {<<f, t>>}]]

\* the layers of the nodes left, given the nodes already in a layer
RECURSIVE LayersFrom(_, _)
LayersFrom(g, done) ==
    LET left  == (1..Len(g.nodes)) \ done
        layer == {n \in left : \A e \in g.edges : e[1] = n => e[2] \in done}
    IN  IF layer = {} THEN <<>>
        ELSE <<layer>> \o LayersFrom(g, done \cup layer)

\* get_forward_dependency_topological_layers: every node is in the first layer
\* after the layers of all it depends on
get_forward_dependency_topological_layers(g) == LayersFrom(g, {})

---------------------------------------------------------------------------
(* main: building the graph *)

\* depend_on(module.description, dependency).unwrap() for the dependencies from k on
RECURSIVE AddDependencies(_, _, _, _)
AddDependencies(g, description, dependencies, k) ==
    IF k > Len(dependencies) THEN [ok |-> TRUE, graph |-> g]
    ELSE LET r == depend_on(g, description, dependencies[k])
         IN  IF ~r.ok THEN r
             ELSE AddDependencies(r.graph, description, dependencies, k + 1)

\* a mutant of add_module: the edges to the dependencies are inserted reversed
RECURSIVE AddDependents(_, _, _, _)
AddDependents(g, description, dependencies, k) ==
    IF k > Len(dependencies) THEN [ok |-> TRUE, graph |-> g]
    ELSE LET r == depend_on(g, dependencies[k], description)
         IN  IF ~r.ok THEN r
             ELSE AddDependents(r.graph, description, dependencies, k + 1)

add_module_reversed(g, base, m) ==
    LET r == depend_on(g, m.description, base)
    IN  IF ~r.ok THEN r
        ELSE AddDependents(r.graph, m.description, m.dependencies, 1)

\* a mutant of add_module: no edge to the base game
add_module_without_base(g, base, m) ==
    AddDependencies(g, m.description, m.dependencies, 1)

\* a mutant of add_module: the results of depend_on are dropped, not unwrapped
RECURSIVE AddDependenciesUnchecked(_, _, _, _)
AddDependenciesUnchecked(g, description, dependencies, k) ==
    IF k > Len(dependencies) THEN [ok |-> TRUE, graph |-> g]
    ELSE AddDependenciesUnchecked(depend_on(g, description, dependencies[k]).graph,
                                  description, dependencies, k + 1)

add_module_unchecked(g, base, m) ==
    AddDependenciesUnchecked(depend_on(g, m.description, base).graph,
                             m.description, m.dependencies, 1)

\* the body of the loop over mods: the edge to the base game, then one edge per
\* dependency; ok is FALSE when an unwrap panicked
add_module(g, base, m) ==
    LET r == depend_on(g, m.description, base)
    IN  IF ~r.ok THEN r
        ELSE AddDependencies(r.graph, m.description, m.dependencies, 1)

---------------------------------------------------------------------------
(* main: the mod list *)

\* the orders in which the elements of a set can be iterated
RECURSIVE Orders(_)
Orders(S) ==
    IF S = {} THEN {<<>>}
    ELSE UNION {{<<x>> \o rest : rest \in Orders(S \ {x})} : x \in S}

\* a mutant of IterationOrders: the first layer is skipped
RECURSIVE IterationOrdersAfterFirst(_)
IterationOrdersAfterFirst(ls) ==
    IF ls = <<>> THEN {<<>>}
    ELSE LET rest == Tail(ls)
         IN  IF rest = <<>> THEN {<<>>}
             ELSE {a \o b : a \in Orders(Head(rest)),
                            b \in IterationOrdersAfterFirst(<<{}>> \o Tail(rest))}

\* "for layer in layers { for module in layer { ... } }": the layers in order.
\* A layer is a hashed set, keyed by the hash of the uuid; the order in which
\* such a set is iterated is not specified, so every order is a possible run.
RECURSIVE IterationOrders(_)
IterationOrders(ls) ==
    IF ls = <<>> THEN {<<>>}
    ELSE {a \o b : a \in Orders(Head(ls)), b \in IterationOrders(Tail(ls))}

\* a mutant of remove_elements_by_name: only the first match is removed
remove_first_element_by_name(children, name) ==
    LET hits == {k \in 1..Len(children) : children[k].name = name}
    IN  IF hits = {} THEN children
        ELSE LET f == CHOOSE k \in hits : \A l \in hits : k <= l
             IN  SubSeq(children, 1, f - 1) \o SubSeq(children, f + 1, Len(children))

\* Element::remove_elements_by_name
remove_elements_by_name(children, name) ==
    SelectSeq(children, LAMBDA c : c.name # name)

\* the search for the base element: the elements are inspected in order, and
\* get_attr(old_mod, "Name").unwrap() panics on one that has no Name
FindBase(children) ==
    LET stops == {k \in 1..Len(children) :
                     \/ ~IsSome(get_attr(children[k], "Name"))
                     \/ starts_with(Unwrap(get_attr(children[k], "Name")),
                                    BASE_GAME_MOD_PREFIX)}
    IN  IF stops = {} THEN [result |-> "Panic", error |-> "MissingBaseModule"]
        ELSE LET k == CHOOSE k \in stops : \A l \in stops : k <= l
             IN  IF \/ ~IsSome(get_attr(children[k], "Name"))
                    \/ ParsePanics(children[k])
                 THEN [result |-> "Panic", error |-> "MalformedDescriptor"]
                 ELSE [result |-> "Ok", base_elem |-> children[k]]

---------------------------------------------------------------------------
(* main *)

NoError == [kind |-> "None"]

Panic(kind) == [kind |-> kind]

Init ==
    /\ dir \in {d \in Listings(FileNames, MaxPaks) :
                   \A j, k \in 1..Len(d) : d[j] = d[k] => j = k}
    /\ modsettings \in ModLists
    /\ modlist = <<>>
    /\ pc = "scan"
    /\ i = 1
    /\ paks = <<>>
    /\ mods = <<>>
    /\ base_mod = None
    /\ new_modlist = <<>>
    /\ dep_graph = EmptyGraph
    /\ layers = <<>>
    /\ emitted = <<>>
    /\ error = NoError
    /\ log = <<>>
    /\ output = None
    /\ entry = <<>>
    /\ offset_result = <<>>

\* one entry of read_dir: a file that is no .pak is passed over, an archive
\* that fails to open with an error is reported and passed over
OpenPak ==
    /\ pc = "scan"
    /\ i <= Len(dir)
    /\ LET file == ReadFile(dir[i])
           r    == open(file)
       IN  IF ~ends_with(file.file_name, <<".", "p", "a", "k">>)
           THEN /\ i' = i + 1
                /\ UNCHANGED <<pc, paks, error, log>>
           ELSE IF r.result = "Ok"
           THEN /\ paks' = Append(paks, [file_list |-> r.file_list])
                /\ i' = i + 1
                /\ UNCHANGED <<pc, error, log>>
           ELSE IF r.result = "Err"
           THEN /\ log' = Append(log, [path |-> file.file_name, error |-> r.error])
                /\ i' = i + 1
                /\ UNCHANGED <<pc, paks, error>>
           ELSE /\ pc' = "aborted"
                /\ error' = Panic(r.error)
                /\ UNCHANGED <<i, paks, log>>
    /\ UNCHANGED <<dir, modsettings, mods, modlist, base_mod, new_modlist, dep_graph, layers,
                   emitted, output, entry, offset_result>>

\* read_dir is exhausted
EndScan ==
    /\ pc = "scan"
    /\ i > Len(dir)
    /\ pc' = "extract"
    /\ i' = 1
    /\ UNCHANGED <<dir, modsettings, paks, mods, modlist, base_mod, new_modlist, dep_graph,
                   layers, emitted, error, log, output, entry, offset_result>>

\* mods.iter().map(|pak| pak.module().unwrap()): one archive
ExtractModule ==
    /\ pc = "extract"
    /\ i <= Len(paks)
    /\ LET r == module(paks[i])
       IN  IF r.result = "Ok"
           THEN /\ mods' = Append(mods, r.module)
                /\ i' = i + 1
                /\ UNCHANGED <<pc, error>>
           ELSE /\ pc' = "aborted"
                /\ error' = Panic(r.error)
                /\ UNCHANGED <<i, mods>>
    /\ UNCHANGED <<dir, modsettings, paks, modlist, base_mod, new_modlist, dep_graph, layers,
                   emitted, log, output, entry, offset_result>>

\* modsettings.lsx is parsed, the base element found and parsed, and the copy
\* of the mod list reset
LoadSettings ==
    /\ pc = "extract"
    /\ i > Len(paks)
    /\ modlist' = modsettings
    /\ LET r == FindBase(modlist')
       IN  IF r.result = "Ok"
           THEN /\ base_mod' = Some(parse(r.base_elem))
                /\ new_modlist' = remove_elements_by_name(modlist', "node")
                /\ pc' = "graph"
                /\ i' = 1
                /\ UNCHANGED error
           ELSE /\ pc' = "aborted"
                /\ error' = Panic(r.error)
                /\ UNCHANGED <<i, base_mod, new_modlist>>
    /\ UNCHANGED <<dir, modsettings, paks, mods, dep_graph, layers, emitted, log,
                   output, entry, offset_result>>

\* one round of "for module in mods"
AddModule ==
    /\ pc = "graph"
    /\ i <= Len(mods)
    /\ LET r == add_module(dep_graph, Unwrap(base_mod), mods[i])
       IN  IF r.ok
           THEN /\ dep_graph' = r.graph
                /\ i' = i + 1
                /\ UNCHANGED <<pc, error>>
           ELSE /\ pc' = "aborted"
                /\ error' = [kind |-> "CycleDetected", node |-> r.node]
                /\ UNCHANGED <<i, dep_graph>>
    /\ UNCHANGED <<dir, modsettings, paks, mods, modlist, base_mod, new_modlist, layers,
                   emitted, log, output, entry, offset_result>>

\* the layers are iterated, one fragment is appended per module, and the
\* copy replaces the mod list of the document
Resolve ==
    /\ pc = "graph"
    /\ i > Len(mods)
    /\ layers' = get_forward_dependency_topological_layers(dep_graph)
    /\ \E order \in IterationOrders(layers') :
          /\ emitted' = [k \in 1..Len(order) |-> dep_graph.nodes[order[k]]]
          /\ new_modlist' = new_modlist \o
                            [k \in 1..Len(order) |-> as_xml(dep_graph.nodes[order[k]])]
    /\ modlist' = new_modlist'
    /\ pc' = "write"
    /\ UNCHANGED <<dir, modsettings, i, paks, mods, base_mod, dep_graph, error, log, output,
                   entry, offset_result>>

\* the document is written
Write ==
    /\ pc = "write"
    /\ output' = Some(modlist)
    /\ pc' = "done"
    /\ UNCHANGED <<dir, modsettings, i, paks, mods, modlist, base_mod, new_modlist, dep_graph,
                   layers, emitted, error, log, entry, offset_result>>

Next ==
    \/ OpenPak
    \/ EndScan
    \/ ExtractModule
    \/ LoadSettings
    \/ AddModule
    \/ Resolve
    \/ Write

Spec == Init /\ [][Next]_vars

---------------------------------------------------------------------------
(* PAKFileEntry::offset.  An unsigned integer is the sequence of its bits, *)
(* the least significant first.                                            *)

Zeros(n) == [k \in 1..n |-> 0]

\* "x as uN" of a narrower unsigned x: zero extension
widen(x, n) == x \o Zeros(n - Len(x))

\* "x << n" in the width of x: the bits shifted out are lost
shl(x, n) == SubSeq(Zeros(n) \o x, 1, Len(x))

\* "a | b" of two integers of one width
bitor(a, b) == [k \in 1..Len(a) |-> IF a[k] = 1 \/ b[k] = 1 THEN 1 ELSE 0]

\* a mutant of offset: the high part is shifted in 32 bits, then widened
offset_shifted_narrow(self) ==
    bitor(widen(self.offset_in_file_1, 64),
          widen(shl(widen(self.offset_in_file_2, 32), 32), 64))

\* PAKFileEntry::offset
offset(self) ==
    bitor(widen(self.offset_in_file_1, 64),
          shl(widen(self.offset_in_file_2, 64), 32))

\* the integers of n bits that are 0, all ones, or a single bit
Patterns(n) ==
    { Zeros(n), [k \in 1..n |-> 1] }
      \cup { [k \in 1..n |-> IF k = b THEN 1 ELSE 0] : b \in 1..n }
      \cup { [k \in 1..n |-> IF k = b THEN 0 ELSE 1] : b \in {1, n} }

OffsetInit ==
    /\ entry \in [offset_in_file_1 : Patterns(32), offset_in_file_2 : Patterns(16)]
    /\ offset_result = None
    /\ dir = <<>>
    /\ modsettings = <<>>
    /\ modlist = <<>>
    /\ pc = "offset"
    /\ i = 1
    /\ paks = <<>>
    /\ mods = <<>>
    /\ base_mod = None
    /\ new_modlist = <<>>
    /\ dep_graph = EmptyGraph
    /\ layers = <<>>
    /\ emitted = <<>>
    /\ error = NoError
    /\ log = <<>>
    /\ output = None

ComputeOffset ==
    /\ pc = "offset"
    /\ offset_result = None
    /\ offset_result' = Some(offset(entry))
    /\ UNCHANGED <<entry, mainVars>>

OffsetNext == ComputeOffset

SpecOffset == OffsetInit /\ [][OffsetNext]_vars

---------------------------------------------------------------------------
(* What the properties speak of *)

\* the graph was built from all of mods and its layers were iterated
Resolved == pc \in {"write", "done"}

\* the positions of the emitted sequence that hold a description with this uuid
Positions(uuid) == {k \in 1..Len(emitted) : emitted[k].uuid = uuid}

\* the descriptions given to depend_on for the first n modules, in call order
RECURSIVE Insertions(_)
Insertions(n) ==
    IF n = 0 THEN <<>>
    ELSE LET m == mods[n]
         IN  Insertions(n - 1) \o <<m.description, Unwrap(base_mod)>>
               \o [k \in 1..(2 * Len(m.dependencies)) |->
                     IF k % 2 = 1 THEN m.description ELSE m.dependencies[k \div 2]]

\* the first description with this uuid that was given to depend_on
FirstInserted(uuid) ==
    LET all == Insertions(Len(mods))
    IN  all[CHOOSE k \in 1..Len(all) :
               /\ all[k].uuid = uuid
               /\ \A l \in 1..(k - 1) : all[l].uuid # uuid]

\* the edges "uuid depends on uuid" that the first n modules ask for
DeclaredEdges(n) ==
    UNION { {<<mods[j].description.uuid, Unwrap(base_mod).uuid>>}
              \cup { <<mods[j].description.uuid, mods[j].dependencies[k].uuid>> :
                       k \in 1..Len(mods[j].dependencies) } : j \in 1..n }

\* the uuids that can be reached from those of S along one edge or more
RECURSIVE ReachedFrom(_, _)
ReachedFrom(E, S) ==
    LET more == S \cup {e[2] : e \in {e \in E : e[1] \in S}}
    IN  IF more = S THEN S ELSE ReachedFrom(E, more)

OnCycle(E, uuid) == uuid \in ReachedFrom(E, {e[2] : e \in {e \in E : e[1] = uuid}})

HasCycle(E) == \E e \in E : OnCycle(E, e[1])

\* the first module that names this uuid, as its own or as a dependency
FirstNamedBy(uuid) ==
    CHOOSE j \in 1..Len(mods) :
        LET names(m) == {m.description.uuid}
                          \cup {m.dependencies[k].uuid : k \in 1..Len(m.dependencies)}
        IN  /\ uuid \in names(mods[j])
            /\ \A l \in 1..(j - 1) : uuid \notin names(mods[l])

\* the layer of the k-th emitted description
LayerOf(k) ==
    CHOOSE l \in 1..Len(layers) : NodeIndex(dep_graph, emitted[k]) \in layers[l]

\* the node children of the mod list
NodeChildren(children) == SelectSeq(children, LAMBDA c : c.name = "node")

\* the type tag modsettings.lsx gives each attribute
TypeTag(id) ==
    CASE id \in {"Folder", "MD5", "Name"} -> "LSString"
      [] id = "PublishHandle" -> "uint64"
      [] id = "UUID" -> "guid"
      [] id = "Version64" -> "int64"

---------------------------------------------------------------------------
(* The properties *)

\* C1: when the run resolves (the modules form an acyclic graph), every
\* declared dependency of a module, the base game's filtered out, is emitted,
\* and at a lower position than the module, whatever the order of the archives.
C1_DependenciesFirst ==
    Resolved =>
        \A j \in 1..Len(mods) : \A k \in 1..Len(mods[j].dependencies) :
            /\ Positions(mods[j].dependencies[k].uuid) # {}
            /\ Positions(mods[j].description.uuid) # {}
            /\ \A p \in Positions(mods[j].dependencies[k].uuid) :
               \A q \in Positions(mods[j].description.uuid) : p < q

\* C1 witness: a finished run in which a module was added before a module it
\* depends on
C1_Witness ==
    /\ pc = "done"
    /\ \E j, l \in 1..Len(mods) :
          /\ j < l
          /\ \E k \in 1..Len(mods[j].dependencies) :
                mods[j].dependencies[k].uuid = mods[l].description.uuid

\* C2: when the modules added contain a dependency cycle, the run ends with
\* CycleDetected naming a node that is on the cycle, and nothing is iterated,
\* appended or written; a run that resolves had no cycle.
C2_CycleAborts ==
    /\ Resolved => ~HasCycle(DeclaredEdges(Len(mods)))
    /\ error.kind = "CycleDetected" =>
          /\ pc = "aborted"
          /\ OnCycle(DeclaredEdges(i), error.node.uuid)
          /\ layers = <<>>
          /\ emitted = <<>>
          /\ output = None

\* C2 witness: the run was aborted by a cycle between two modules
C2_Witness ==
    /\ pc = "aborted"
    /\ error.kind = "CycleDetected"
    /\ error.node.uuid # Unwrap(base_mod).uuid
    /\ \E j \in 1..(i - 1) : \E k \in 1..Len(mods[j].dependencies) :
          mods[j].dependencies[k].uuid = mods[i].description.uuid

C4_OnlyAddedModules ==
    Resolved =>
        \A p \in 1..Len(emitted) :
            \/ emitted[p].uuid = Unwrap(base_mod).uuid
            \/ \E j \in 1..Len(mods) : mods[j].description.uuid = emitted[p].uuid

\* C5 as claimed: among the descriptions of one layer, the one that was named
\* by an earlier module comes first
C5_FirstDiscoveredOrder ==
    Resolved =>
        \A p, q \in 1..Len(emitted) :
            ( /\ p < q
              /\ LayerOf(p) = LayerOf(q)
              /\ emitted[p].uuid # Unwrap(base_mod).uuid
              /\ emitted[q].uuid # Unwrap(base_mod).uuid )
            => FirstNamedBy(emitted[p].uuid) <= FirstNamedBy(emitted[q].uuid)

\* C6: descriptions with one uuid are one node: no uuid is emitted twice, and
\* what is emitted for a uuid is the first description with that uuid that was
\* inserted, be it a module's own or a dependency declaration.
C6_UuidIdentityFirstWins ==
    Resolved =>
        /\ \A p, q \in 1..Len(emitted) : emitted[p].uuid = emitted[q].uuid => p = q
        /\ \A p \in 1..Len(emitted) : emitted[p] = FirstInserted(emitted[p].uuid)

\* C6 witness: a finished run in which two archives carried one uuid with
\* different attributes, and a dependency declaration a third variant
C6_Witness ==
    /\ pc = "done"
    /\ \E j, l \in 1..Len(mods) :
          /\ j < l
          /\ mods[j].description.uuid = mods[l].description.uuid
          /\ mods[j].description # mods[l].description
          /\ mods[j].description \in {emitted[p] : p \in 1..Len(emitted)}
    /\ \E j, l \in 1..Len(mods) : \E k \in 1..Len(mods[j].dependencies) :
          /\ j < l
          /\ mods[j].dependencies[k].uuid = mods[l].description.uuid
          /\ mods[j].dependencies[k] # mods[l].description

\* C7: after the replacement the node children of the mod list are one
\* fragment per emitted description, in order, each with the six attributes
\* under their type tags and parsing back to the description; nothing of the
\* old list is left among them.
C7_FullReplacement ==
    Resolved =>
        LET nodes == NodeChildren(modlist)
        IN  /\ Len(nodes) = Len(emitted)
            /\ \A k \in 1..Len(nodes) :
                  /\ ElemAttr(nodes[k], "id") = Some("ModuleShortDesc")
                  /\ Len(nodes[k].children) = 6
                  /\ \A a \in 1..6 :
                        /\ nodes[k].children[a].name = "attribute"
                        /\ nodes[k].children[a].attrs.type =
                              TypeTag(nodes[k].children[a].attrs.id)
                  /\ ~ParsePanics(nodes[k])
                  /\ parse(nodes[k]) =
                        [emitted[k] EXCEPT !.publish_handle =
                            IF IsSome(@) THEN @ ELSE Some(<<"0">>)]

\* C7 witness: a finished run whose mod list held stale entries, one of them
\* of a mod that is not emitted, and now holds two fragments or more
C7_Witness ==
    /\ pc = "done"
    /\ Len(emitted) >= 2
    /\ \E k \in 1..Len(modsettings) :
          /\ modsettings[k].name = "node"
          /\ Positions(parse(modsettings[k]).uuid) = {}
    /\ output = Some(modlist)

\* C8 as claimed: an error of one archive does not abort the run; only
\* CycleDetected and MissingBaseModule do
C8_ArchiveErrorsIsolated ==
    pc = "aborted" => error.kind \in {"CycleDetected", "MissingBaseModule"}

\* C9: for every low part of 32 bits and high part of 16 bits the offset is
\* the 64-bit integer whose bits 0..31 are the low part, whose bits 32..47 are
\* the high part and whose bits 48..63 are zero: low + high * 2^32, nothing
\* truncated, below 2^48.
C9_OffsetReconstructed ==
    IsSome(offset_result) =>
        LET r == Unwrap(offset_result)
        IN  /\ Len(r) = 64
            /\ \A k \in 1..32 : r[k] = entry.offset_in_file_1[k]
            /\ \A k \in 1..16 : r[32 + k] = entry.offset_in_file_2[k]
            /\ \A k \in 49..64 : r[k] = 0

\* C9 witness: the offset of an entry whose two parts are saturated
C9_Witness ==
    /\ IsSome(offset_result)
    /\ \A k \in 1..32 : entry.offset_in_file_1[k] = 1
    /\ \A k \in 1..16 : entry.offset_in_file_2[k] = 1

\* C10: when the run resolves, the uuid of every module that was added is
\* emitted exactly once.
C10_EveryModuleOnce ==
    Resolved =>
        \A j \in 1..Len(mods) :
            Cardinality(Positions(mods[j].description.uuid)) = 1

\* C10 witness: a finished run with three modules or more of two uuids or more
C10_Witness ==
    /\ pc = "done"
    /\ Len(mods) >= 3
    /\ Cardinality({mods[j].description.uuid : j \in 1..Len(mods)}) >= 2

====
